---------------------------- MODULE Spec2Model ----------------------------
(***************************************************************************)
(* Model of src/rsa.py: textbook RSA over Python's unbounded integers.     *)
(*                                                                         *)
(* The pure recursive functions (modexp, extended_euclid, modinv, encode,  *)
(* decode) are operators computed as the code computes them.  The three    *)
(* functions that consume the random source or loop (fermat_test,          *)
(* randprime, keygen) are state machines; `pc` is the position in the      *)
(* code and `stack` holds the return points of the callers.                *)
(*                                                                         *)
(* One behaviour is one top-level call of one function of the module,      *)
(* followed, for keygen, by an encode and a decode with the returned keys. *)
(***************************************************************************)
EXTENDS Integers, Sequences, FiniteSets, TLC

VARIABLES
    pc,      \* position: "idle", a label inside a function, "returned", "raised"
    stack,   \* return points of the pending callers, innermost last
    op,      \* name of the top-level function called
    args,    \* its integer arguments
    ret,     \* integer returned by modexp, modinv, randprime
    mnd,     \* triple returned by extended_euclid
    verdict, \* boolean returned by fermat_test
    exc,     \* message of the exception raised, "" if none
    fN,      \* fermat_test: N
    wcount,  \* fermat_test: the argument alphas when it is an int, else None
    wlist,   \* fermat_test: the argument alphas when it is a list, else << >>
    draws,   \* fermat_test: bases of the list comprehension not yet drawn
    alphas,  \* fermat_test: bases of the explicit list not yet visited
    a,       \* fermat_test: the loop variable a
    lower,   \* randprime: lower
    upper,   \* randprime: upper
    n,       \* randprime: n
    nbits,   \* keygen: nbits
    p,       \* keygen: p
    q,       \* keygen: q
    kN,      \* keygen: N
    e,       \* keygen: e
    pub,     \* keygen: first component of the result, (N, e)
    priv,    \* keygen: second component of the result, (N, d)
    msg,     \* message given to encode
    cipher,  \* result of encode
    plain    \* result of decode

vars == <<pc, stack, op, args, ret, mnd, verdict, exc, fN, wcount, wlist, draws,
          alphas, a, lower, upper, n, nbits, p, q, kN, e, pub, priv, msg,
          cipher, plain>>

(***************************************************************************)
(* Bounds of the model.                                                    *)
(***************************************************************************)
MaxArg == 6        \* modexp is called with x, y in 0..MaxArg and N in 1..MaxArg
MaxEuclid == 15    \* extended_euclid and modinv are called with values in 0..MaxEuclid
MaxFermatN == 62   \* fermat_test is called with N in 1..MaxFermatN
MaxCount == 2      \* witness counts 0..MaxCount, besides the default count
MaxBase == 3       \* explicit witness lists over 1..MaxBase, besides randprime's list
MaxListLen == 1    \* length of those explicit lists
MaxUpper == 24     \* randprime is called with 1 <= lower <= upper <= MaxUpper
MaxBits == 5       \* keygen is called with nbits in 1..MaxBits
MaxE == 12         \* the exponent search stops incrementing e at MaxE

None == 0 - 1      \* a local not yet assigned

(***************************************************************************)
(* Program constants.                                                      *)
(***************************************************************************)
DefaultAlphas == 10
FirstE == 3
Witnesses == <<2, 3, 5, 7, 11, 13, 17, 19>>

(***************************************************************************)
(* Pure functions.                                                         *)
(***************************************************************************)

\* modexp(x,y,N).  Python's integers are unbounded, so x*(z**2) % N is the
\* exact residue; it is computed here as x*((z**2) % N) % N, the same number,
\* to keep the intermediate products small.
RECURSIVE modexp(_, _, _)
modexp(x, y, N) ==
    IF y = 0
    THEN 1
    ELSE LET z == modexp(x, y \div 2, N)
         IN  IF y % 2 = 0
             THEN (z * z) % N
             ELSE (x * ((z * z) % N)) % N

\* extended_euclid(a,b), for b >= 0 (a % b and a // b are Python's floor forms).
RECURSIVE extended_euclid(_, _)

\* Mutant: the second coefficient is combined with m instead of n.
extended_euclid_wrong_coeff(ea, eb) ==
    IF eb = 0
    THEN <<1, 0, ea>>
    ELSE LET r == extended_euclid(eb, ea % eb)
         IN  <<r[2], r[1] - (ea \div eb) * r[1], r[3]>>

extended_euclid(ea, eb) ==
    IF eb = 0
    THEN <<1, 0, ea>>
    ELSE LET r == extended_euclid(eb, ea % eb)
         IN  <<r[2], r[1] - (ea \div eb) * r[2], r[3]>>

\* Mutant: the Bezout coefficient is returned without the reduction mod N.
modinv_unreduced(ma, mN) ==
    LET r == extended_euclid(ma, mN)
    IN  IF r[3] # 1
        THEN [exc |-> "Zero divisor", val |-> None]
        ELSE [exc |-> "", val |-> r[1]]

\* Mutant: the zero-divisor test compares the gcd with 0 instead of 1.
modinv_tests_zero(ma, mN) ==
    LET r == extended_euclid(ma, mN)
    IN  IF r[3] = 0
        THEN [exc |-> "Zero divisor", val |-> None]
        ELSE IF mN = 0
             THEN [exc |-> "ZeroDivisionError", val |-> None]
             ELSE [exc |-> "", val |-> r[1] % mN]

\* modinv(a,N): the exception raised ("" if none) and the value returned.
\* m % N with N = 0 raises ZeroDivisionError in Python.
modinv(ma, mN) ==
    LET r == extended_euclid(ma, mN)
    IN  IF r[3] # 1
        THEN [exc |-> "Zero divisor", val |-> None]
        ELSE IF mN = 0
             THEN [exc |-> "ZeroDivisionError", val |-> None]
             ELSE [exc |-> "", val |-> r[1] % mN]

encode(public_key, m) == modexp(m, public_key[2], public_key[1])

decode(private_key, c) == modexp(c, private_key[2], private_key[1])

Pow2(k) == 2 ^ k

(***************************************************************************)
(* Initial state: nothing has been called.                                 *)
(***************************************************************************)
Init ==
    /\ pc = "idle"
    /\ stack = << >>
    /\ op = ""
    /\ args = << >>
    /\ ret = None
    /\ mnd = << >>
    /\ verdict = FALSE
    /\ exc = ""
    /\ fN = None
    /\ wcount = None
    /\ wlist = << >>
    /\ draws = 0
    /\ alphas = << >>
    /\ a = None
    /\ lower = None
    /\ upper = None
    /\ n = None
    /\ nbits = None
    /\ p = None
    /\ q = None
    /\ kN = None
    /\ e = None
    /\ pub = << >>
    /\ priv = << >>
    /\ msg = None
    /\ cipher = None
    /\ plain = None

fermatVars == <<fN, wcount, wlist, draws, alphas, a>>
randprimeVars == <<lower, upper, n>>
keygenVars == <<nbits, p, q, kN, e, pub, priv>>
codecVars == <<msg, cipher, plain>>


(***************************************************************************)
(* Inputs of the top-level calls.                                          *)
(***************************************************************************)
Counts == (0..MaxCount) \cup {DefaultAlphas}
ExplicitLists ==
    {Witnesses} \cup UNION {[1..k -> 1..MaxBase] : k \in 0..MaxListLen}

(***************************************************************************)
(* Top-level calls of the pure functions.                                  *)
(***************************************************************************)
CallModexp ==
    /\ pc = "idle"
    /\ \E x \in 0..MaxArg, y \in 0..MaxArg, N \in 1..MaxArg :
        /\ op' = "modexp"
        /\ args' = <<x, y, N>>
        /\ ret' = modexp(x, y, N)
        /\ pc' = "returned"
        /\ UNCHANGED <<stack, mnd, verdict, exc, fermatVars, randprimeVars,
                       keygenVars, codecVars>>

CallExtendedEuclid ==
    /\ pc = "idle"
    /\ \E x \in 0..MaxEuclid, y \in 0..MaxEuclid :
        /\ op' = "extended_euclid"
        /\ args' = <<x, y>>
        /\ mnd' = extended_euclid(x, y)
        /\ pc' = "returned"
        /\ UNCHANGED <<stack, ret, verdict, exc, fermatVars, randprimeVars,
                       keygenVars, codecVars>>

CallModinv ==
    /\ pc = "idle"
    /\ \E x \in 0..MaxEuclid, N \in 0..MaxEuclid :
        /\ op' = "modinv"
        /\ args' = <<x, N>>
        /\ LET r == modinv(x, N)
           IN  /\ exc' = r.exc
               /\ ret' = r.val
               /\ pc' = IF r.exc = "" THEN "returned" ELSE "raised"
        /\ UNCHANGED <<stack, mnd, verdict, fermatVars, randprimeVars,
                       keygenVars, codecVars>>

(***************************************************************************)
(* fermat_test(N, alphas).  When alphas is an int the list comprehension   *)
(* of line 66 draws that many bases from [1, N-1] before the loop starts;  *)
(* the draws are independent of the loop, so each base is drawn here when  *)
(* the loop reaches it, and `draws` counts the bases still to come.        *)
(***************************************************************************)
CallFermatTestCount ==
    /\ pc = "idle"
    /\ \E N \in 1..MaxFermatN, k \in Counts :
        /\ op' = "fermat_test"
        /\ args' = <<N>>
        /\ fN' = N
        /\ wcount' = k
        /\ draws' = k
        /\ pc' = "fermat_for"
        /\ UNCHANGED <<stack, ret, mnd, verdict, exc, wlist, alphas, a,
                       randprimeVars, keygenVars, codecVars>>

CallFermatTestList ==
    /\ pc = "idle"
    /\ \E N \in 1..MaxFermatN, l \in ExplicitLists :
        /\ op' = "fermat_test"
        /\ args' = <<N>>
        /\ fN' = N
        /\ wlist' = l
        /\ alphas' = l
        /\ pc' = "fermat_for"
        /\ UNCHANGED <<stack, ret, mnd, verdict, exc, wcount, draws, a,
                       randprimeVars, keygenVars, codecVars>>

\* randint(1, N-1) of line 66, for the next base of the loop.
FermatDrawAlpha ==
    /\ pc = "fermat_for"
    /\ draws > 0
    /\ \E v \in 1..(fN - 1) : a' = v
    /\ draws' = draws - 1
    /\ pc' = "fermat_check"
    /\ UNCHANGED <<stack, op, args, ret, mnd, verdict, exc, fN, wcount, wlist,
                   alphas, randprimeVars, keygenVars, codecVars>>

\* randint(1, N-1) raises ValueError when the range is empty.
FermatDrawError ==
    /\ pc = "fermat_for"
    /\ draws > 0
    /\ fN - 1 < 1
    /\ exc' = "ValueError"
    /\ pc' = "raised"
    /\ UNCHANGED <<stack, op, args, ret, mnd, verdict, fermatVars,
                   randprimeVars, keygenVars, codecVars>>

\* for a in alphas: the next base of an explicit list.
FermatNextAlpha ==
    /\ pc = "fermat_for"
    /\ alphas # << >>
    /\ a' = Head(alphas)
    /\ alphas' = Tail(alphas)
    /\ pc' = "fermat_check"
    /\ UNCHANGED <<stack, op, args, ret, mnd, verdict, exc, fN, wcount, wlist,
                   draws, randprimeVars, keygenVars, codecVars>>

\* A return: control goes to the return point of the innermost caller, or
\* the top-level call has returned.
ReturnPc == IF stack = << >> THEN "returned" ELSE stack[Len(stack)]
Pop == IF stack = << >> THEN stack ELSE SubSeq(stack, 1, Len(stack) - 1)

\* z = modexp(a,N-1,N); if z != 1: return False
FermatCheck ==
    /\ pc = "fermat_check"
    /\ LET z == modexp(a, fN - 1, fN)
       IN  IF z # 1
           THEN /\ verdict' = FALSE
                /\ pc' = ReturnPc
                /\ stack' = Pop
           ELSE /\ pc' = "fermat_for"
                /\ UNCHANGED <<verdict, stack>>
    /\ UNCHANGED <<op, args, ret, mnd, exc, fermatVars, randprimeVars,
                   keygenVars, codecVars>>

\* the loop is exhausted: return True
FermatReturnTrue ==
    /\ pc = "fermat_for"
    /\ draws = 0
    /\ alphas = << >>
    /\ verdict' = TRUE
    /\ pc' = ReturnPc
    /\ stack' = Pop
    /\ UNCHANGED <<op, args, ret, mnd, exc, fermatVars, randprimeVars,
                   keygenVars, codecVars>>

(***************************************************************************)
(* randprime(lower, upper).                                                *)
(***************************************************************************)
CallRandprime ==
    /\ pc = "idle"
    /\ \E lo \in 1..MaxUpper, hi \in 1..MaxUpper :
        /\ lo <= hi
        /\ op' = "randprime"
        /\ args' = <<lo, hi>>
        /\ lower' = lo
        /\ upper' = hi
        /\ pc' = "rp_draw"
        /\ UNCHANGED <<stack, ret, mnd, verdict, exc, fermatVars, n, keygenVars,
                       codecVars>>

\* n = randint(lower,upper), then the call fermat_test(n,alphas)
RandprimeDraw(v) ==
    /\ pc = "rp_draw"
    /\ v \in lower..upper
    /\ n' = v
    /\ fN' = v
    /\ wcount' = None
    /\ wlist' = Witnesses
    /\ draws' = 0
    /\ alphas' = Witnesses
    /\ a' = None
    /\ stack' = Append(stack, "rp_test")
    /\ pc' = "fermat_for"
    /\ UNCHANGED <<op, args, ret, mnd, verdict, exc, lower, upper,
                   keygenVars, codecVars>>

\* if fermat_test(n,alphas): return n, else the next iteration
RandprimeTest ==
    /\ pc = "rp_test"
    /\ IF verdict
       THEN /\ ret' = n
            /\ pc' = ReturnPc
            /\ stack' = Pop
       ELSE /\ pc' = "rp_draw"
            /\ UNCHANGED <<ret, stack>>
    /\ UNCHANGED <<op, args, mnd, verdict, exc, fermatVars, randprimeVars,
                   keygenVars, codecVars>>

(***************************************************************************)
(* keygen(nbits).                                                          *)
(***************************************************************************)
\* lower,upper = 2**(nbits-1),2**nbits-1 and the call p = randprime(lower,upper)
CallKeygen ==
    /\ pc = "idle"
    /\ \E nb \in 1..MaxBits :
        /\ op' = "keygen"
        /\ args' = <<nb>>
        /\ nbits' = nb
        /\ lower' = Pow2(nb - 1)
        /\ upper' = Pow2(nb) - 1
        /\ stack' = <<"keygen_p">>
        /\ pc' = "rp_draw"
        /\ UNCHANGED <<ret, mnd, verdict, exc, fermatVars, n, p, q, kN, e, pub,
                       priv, codecVars>>

\* p is assigned; the call q = randprime(lower,upper)
KeygenP ==
    /\ pc = "keygen_p"
    /\ p' = ret
    /\ stack' = <<"keygen_q">>
    /\ pc' = "rp_draw"
    /\ UNCHANGED <<op, args, ret, mnd, verdict, exc, fermatVars, randprimeVars,
                   nbits, q, kN, e, pub, priv, codecVars>>

\* q is assigned; N = p*q; e = 3
KeygenQ ==
    /\ pc = "keygen_q"
    /\ q' = ret
    /\ kN' = p * ret
    /\ e' = FirstE
    /\ pc' = "keygen_e"
    /\ UNCHANGED <<stack, op, args, ret, mnd, verdict, exc, fermatVars,
                   randprimeVars, nbits, p, pub, priv, codecVars>>

\* Mutant: the private half is built from e instead of d.
KeygenBreakReturnsE ==
    /\ pc = "keygen_e"
    /\ modinv(e, (p - 1) * (q - 1)).exc = ""
    /\ pub' = <<kN, e>>
    /\ priv' = <<kN, e>>
    /\ pc' = "returned"
    /\ UNCHANGED <<stack, op, args, ret, mnd, verdict, exc, fermatVars,
                   randprimeVars, nbits, p, q, kN, e, codecVars>>

\* d = modinv(e,(p-1)*(q-1)) succeeds: break; return ((N,e),(N,d))
KeygenBreak ==
    /\ pc = "keygen_e"
    /\ LET r == modinv(e, (p - 1) * (q - 1))
       IN  /\ r.exc = ""
           /\ pub' = <<kN, e>>
           /\ priv' = <<kN, r.val>>
    /\ pc' = "returned"
    /\ UNCHANGED <<stack, op, args, ret, mnd, verdict, exc, fermatVars,
                   randprimeVars, nbits, p, q, kN, e, codecVars>>

\* modinv raises: the bare except catches it; e += 1
KeygenExcept ==
    /\ pc = "keygen_e"
    /\ modinv(e, (p - 1) * (q - 1)).exc # ""
    /\ e < MaxE
    /\ e' = e + 1
    /\ UNCHANGED <<pc, stack, op, args, ret, mnd, verdict, exc, fermatVars,
                   randprimeVars, nbits, p, q, kN, pub, priv, codecVars>>

(***************************************************************************)
(* encode and decode with the keys keygen returned.                        *)
(***************************************************************************)
Encode ==
    /\ pc = "returned"
    /\ op = "keygen"
    /\ \E m \in 0..(pub[1] - 1) :
        /\ msg' = m
        /\ cipher' = encode(pub, m)
    /\ pc' = "encoded"
    /\ UNCHANGED <<stack, op, args, ret, mnd, verdict, exc, fermatVars,
                   randprimeVars, keygenVars, plain>>

Decode ==
    /\ pc = "encoded"
    /\ plain' = decode(priv, cipher)
    /\ pc' = "decoded"
    /\ UNCHANGED <<stack, op, args, ret, mnd, verdict, exc, fermatVars,
                   randprimeVars, keygenVars, msg, cipher>>

(***************************************************************************)
(* Specifications.                                                         *)
(***************************************************************************)
KeygenSteps ==
    \/ \E v \in lower..upper : RandprimeDraw(v)
    \/ FermatNextAlpha
    \/ FermatCheck
    \/ FermatReturnTrue
    \/ RandprimeTest
    \/ KeygenP
    \/ KeygenQ
    \/ KeygenBreak
    \/ KeygenExcept

Next ==
    \/ CallModexp
    \/ CallExtendedEuclid
    \/ CallModinv
    \/ CallFermatTestCount
    \/ CallFermatTestList
    \/ FermatDrawAlpha
    \/ FermatDrawError
    \/ CallRandprime
    \/ CallKeygen
    \/ KeygenSteps
    \/ Encode
    \/ Decode

Spec == Init /\ [][Next]_vars

\* keygen alone, under fair random sampling: every value of the interval is
\* drawn again and again while randprime keeps sampling, and every other step
\* of the code is eventually executed.
NextKeygen ==
    \/ CallKeygen
    \/ KeygenSteps

\* The values keygen(nb) samples from.
Interval(nb) == Pow2(nb - 1)..(Pow2(nb) - 1)

\* Strong fairness of every draw, SF_vars(RandprimeDraw(v)) for each v: a draw
\* of v is possible exactly when randprime is about to sample and v lies in
\* the interval, so the conjunction over v is stated once per interval: if
\* keygen(nb) samples again and again, every value of its interval is drawn
\* again and again.
FairSampling ==
    \A nb \in 1..MaxBits :
        []<>(pc = "rp_draw" /\ nbits = nb)
            => \A v \in Interval(nb) : []<><<RandprimeDraw(v)>>_vars

LiveSpec ==
    /\ Init
    /\ [][NextKeygen]_vars
    /\ WF_vars(NextKeygen)
    /\ FairSampling

(***************************************************************************)
(* Mathematical notions the properties are stated with.                    *)
(***************************************************************************)
Max(x, y) == IF x >= y THEN x ELSE y

\* The greatest common divisor, by definition; GCD(0, 0) = 0.
GCD(x, y) ==
    IF x = 0 /\ y = 0
    THEN 0
    ELSE LET common == {c \in 1..Max(x, y) : (x = 0 \/ x % c = 0) /\ (y = 0 \/ y % c = 0)}
         IN  CHOOSE c \in common : \A c2 \in common : c2 <= c

IsPrime(v) == v > 1 /\ \A c \in 2..(v - 1) : v % c # 0

RECURSIVE Pow(_, _)
Pow(x, y) == IF y = 0 THEN 1 ELSE x * Pow(x, y - 1)

KeygenReturned == op = "keygen" /\ pc = "returned"

(***************************************************************************)
(* Properties.                                                             *)
(***************************************************************************)

\* C1: for every key pair keygen returns (p = q included) and every message
\* 0 <= m < N, decode(priv, encode(pub, m)) equals m.
RoundTrip ==
    pc = "decoded" => plain = msg

\* C2: keygen returns ((N, e), (N, d)) with N = p*q in both halves, e the
\* smallest integer >= 3 coprime to (p-1)(q-1), e*d mod (p-1)(q-1) = 1 and
\* 0 <= d < (p-1)(q-1).
KeygenResult ==
    KeygenReturned =>
        LET phi == (p - 1) * (q - 1)
        IN  /\ pub[1] = p * q
            /\ priv[1] = p * q
            /\ pub[2] >= 3
            /\ GCD(pub[2], phi) = 1
            /\ \A c \in 3..(pub[2] - 1) : GCD(c, phi) # 1
            /\ \A c \in 3..(pub[2] - 1) : modinv(c, phi).exc = "Zero divisor"
            /\ 0 <= priv[2]
            /\ priv[2] < phi
            /\ (pub[2] * priv[2]) % phi = 1

\* keygen has returned after rejecting candidates for e, with distinct p, q.
KeygenResultWitness ==
    /\ op = "keygen"
    /\ pc = "returned"
    /\ p # q
    /\ pub[2] = 11

\* C3: whenever randprime(lower, upper) returns v, with 1 <= lower <= upper,
\* v is prime and lower <= v <= upper.
RandprimeReturnsPrime ==
    (op = "randprime" /\ pc = "returned") =>
        /\ IsPrime(ret)
        /\ lower <= ret
        /\ ret <= upper

ModinvDone == op = "modinv" /\ pc \in {"returned", "raised"}

\* C4: for a >= 0 and N >= 1 with gcd(a, N) = 1, modinv(a, N) returns x with
\* 0 <= x < N and (a * x) mod N = 1.
ModinvInverse ==
    (ModinvDone /\ args[2] >= 1 /\ GCD(args[1], args[2]) = 1) =>
        /\ pc = "returned"
        /\ 0 <= ret
        /\ ret < args[2]
        /\ (args[1] * ret) % args[2] = 1

\* C4, amended: for a >= 0 and N >= 1 with gcd(a, N) = 1, modinv(a, N) returns
\* x with 0 <= x < N and (a * x) mod N = 1 mod N, which is 1 for N >= 2 and 0
\* for N = 1.
ModinvInverseModN ==
    (ModinvDone /\ args[2] >= 1 /\ GCD(args[1], args[2]) = 1) =>
        /\ pc = "returned"
        /\ 0 <= ret
        /\ ret < args[2]
        /\ (args[1] * ret) % args[2] = 1 % args[2]

\* modinv has returned an inverse that needed the reduction of a negative
\* Bezout coefficient.
ModinvInverseWitness ==
    /\ op = "modinv"
    /\ pc = "returned"
    /\ args = <<3, 7>>
    /\ extended_euclid(3, 7)[1] < 0
    /\ ret = 5

\* C5: for a >= 0 and N >= 1, modinv(a, N) ends in the "Zero divisor" error,
\* returning no value, if and only if gcd(a, N) # 1; modinv(2, 4) fails and
\* modinv(2, 7) returns 4.
ModinvFailsIff ==
    (ModinvDone /\ args[2] >= 1) =>
        /\ (pc = "raised") <=> (GCD(args[1], args[2]) # 1)
        /\ pc = "raised" => (exc = "Zero divisor" /\ ret = None)
        /\ pc = "returned" => exc = ""
        /\ args = <<2, 4>> => pc = "raised"
        /\ args = <<2, 7>> => (pc = "returned" /\ ret = 4)

\* modinv(2, 4) has ended in the error.
ModinvFailsWitness ==
    /\ op = "modinv"
    /\ args = <<2, 4>>
    /\ pc = "raised"
    /\ exc = "Zero divisor"

\* C6: for a, b >= 0, extended_euclid(a, b) returns (m, n, d) with
\* m*a + n*b = d and d = gcd(a, b); b = 0 returns (1, 0, a), so (0, 0) gives
\* (1, 0, 0); (15, 7) gives (1, -2, 1).
EuclidBezout ==
    (op = "extended_euclid" /\ pc = "returned") =>
        /\ mnd[1] * args[1] + mnd[2] * args[2] = mnd[3]
        /\ mnd[3] = GCD(args[1], args[2])
        /\ args[2] = 0 => mnd = <<1, 0, args[1]>>
        /\ args = <<0, 0>> => mnd = <<1, 0, 0>>
        /\ args = <<15, 7>> => mnd = <<1, -2, 1>>

\* extended_euclid(15, 7) has returned.
EuclidBezoutWitness ==
    /\ op = "extended_euclid"
    /\ pc = "returned"
    /\ args = <<15, 7>>
    /\ mnd = <<1, -2, 1>>

\* C7: for x, y >= 0 and N >= 1, modexp(x, y, N) returns x^y mod N, a value of
\* [0, N); for y = 0 that is 1 mod N: 1 for N > 1 and 0 for N = 1.
ModexpPower ==
    (op = "modexp" /\ pc = "returned") =>
        /\ ret = Pow(args[1], args[2]) % args[3]
        /\ 0 <= ret
        /\ ret < args[3]

\* C8: with the default count of 10 bases drawn from [1, N-1], fermat_test
\* returns True for N = 61 and False for N = 62, whatever the bases drawn.
FermatDoctest ==
    (op = "fermat_test" /\ pc = "returned" /\ wcount = DefaultAlphas) =>
        /\ fN = 61 => verdict
        /\ fN = 62 => ~verdict

\* C9: no false negatives: for every prime N and every witnesses argument (a
\* count, or an explicit list such as randprime's), fermat_test returns True;
\* it returns False only when N is composite.
FermatNoFalseNegative ==
    ((op = "fermat_test" /\ pc = "returned") \/ pc = "rp_test") =>
        /\ IsPrime(fN) => verdict
        /\ ~verdict => (fN > 1 /\ ~IsPrime(fN))

\* C10: for every nbits >= 1, under fair sampling, keygen(nbits) eventually
\* returns a key pair.  The exponent search is followed up to e = MaxE only, so
\* a run that reaches MaxE is not counted against the claim.
KeygenTerminates ==
    <>((op = "keygen" /\ pc = "returned") \/ e = MaxE)

=============================================================================
